---- MODULE Spec2Model ----
(***************************************************************************)
(* Model of the gofang crawl orchestrator (internal/crawler/crawler.go):   *)
(* the URL normalizer, the frontier (visited set + pending queue), the     *)
(* bounded worker scheduler of Crawler.Run, the per-page work unit         *)
(* Crawler.processURL, the stats aggregate and the lossy event channel.    *)
(*                                                                         *)
(* A URL string is a sequence of characters.  The scheme words, the host   *)
(* names and the path segment names are single characters of the model's   *)
(* alphabet; ":", "/", "?" and "#" are the delimiters net/url looks for.   *)
(***************************************************************************)
EXTENDS Integers, Sequences, FiniteSets, TLC

(***************************************************************************)
(* Bounds of the model.                                                    *)
(***************************************************************************)
\* largest MaxDepth, MaxPages and Parallelism a configuration is given
MaxDepthBound == 2
MaxPagesBound == 4
MaxParallelism == 2
\* capacity of the event channel in the model (New makes it 1000)
EventCap == 2
\* longest string appended to a URL prefix to make an input of normalizeURL
MaxTailLen == 4
\* goroutines Run can start: one more than any page cap lets it
MaxWorkers == MaxPagesBound + 1

(***************************************************************************)
(* Strings as character sequences.                                         *)
(***************************************************************************)
EmptyStr == << >>

\* position of the first occurrence of character ch in s, 0 when absent
RECURSIVE IndexFrom(_, _, _)
IndexFrom(s, ch, i) ==
    IF i > Len(s) THEN 0
    ELSE IF s[i] = ch THEN i
    ELSE IndexFrom(s, ch, i + 1)

Index(s, ch) == IndexFrom(s, ch, 1)

HasPrefix(s, p) == Len(s) >= Len(p) /\ SubSeq(s, 1, Len(p)) = p

\* strings.TrimSuffix(s, "/"): drops one trailing "/"
TrimSuffixSlash(s) ==
    IF Len(s) > 0 /\ s[Len(s)] = "/" THEN SubSeq(s, 1, Len(s) - 1) ELSE s

\* strings.TrimRight(s, "/"): drops every trailing "/"
RECURSIVE TrimRightSlash(_)
TrimRightSlash(s) ==
    IF Len(s) > 0 /\ s[Len(s)] = "/"
    THEN TrimRightSlash(SubSeq(s, 1, Len(s) - 1))
    ELSE s

Delims == {":", "/", "?", "#"}

\* the one element of a singleton set; {F(x) : x \in {e}} evaluates e once
Only(S) == CHOOSE x \in S : TRUE

\* strings.Cut(s, ch): s around the first ch, the whole of s when absent
Cut(s, ch) ==
    Only({ [before |-> IF i = 0 THEN s ELSE SubSeq(s, 1, i - 1),
            after |-> IF i = 0 THEN EmptyStr ELSE SubSeq(s, i + 1, Len(s))] :
           i \in {Index(s, ch)} })

(***************************************************************************)
(* net/url.Parse, for the URL shapes the crawler meets: scheme, opaque,    *)
(* //host authority, path, ?query and #fragment, with the ForceQuery and   *)
(* OmitHost marks.  No escaping, userinfo or port is modelled.             *)
(***************************************************************************)
\* getScheme: the characters before the first ":" when they are all letters
\* and there is at least one; no scheme otherwise
SchemeEnd(s) ==
    Only({ IF i > 1 /\ \A k \in 1..(i - 1) : s[k] \notin Delims THEN i ELSE 0 :
           i \in {Index(s, ":")} })

SplitScheme(s) ==
    Only({ [scheme |-> IF i = 0 THEN EmptyStr ELSE SubSeq(s, 1, i - 1),
            rest |-> IF i = 0 THEN s ELSE SubSeq(s, i + 1, Len(s))] :
           i \in {SchemeEnd(s)} })

\* the authority and the path of rest, which starts with "//"
ParseAuthority(scheme, r2, query, frag) ==
    Only({ [Scheme |-> scheme, Opaque |-> EmptyStr,
            Host |-> IF sl = 0 THEN r2 ELSE SubSeq(r2, 1, sl - 1),
            Path |-> IF sl = 0 THEN EmptyStr ELSE SubSeq(r2, sl, Len(r2)),
            RawQuery |-> query, Fragment |-> frag,
            ForceQuery |-> FALSE, OmitHost |-> FALSE] :
           sl \in {Index(r2, "/")} })

\* what follows the scheme and precedes the query; a path right after the
\* scheme, with no authority, sets OmitHost
ParseHier(scheme, rest, query, frag) ==
    IF scheme # EmptyStr /\ ~HasPrefix(rest, <<"/">>)
    THEN [Scheme |-> scheme, Opaque |-> rest, Host |-> EmptyStr,
          Path |-> EmptyStr, RawQuery |-> query, Fragment |-> frag,
          ForceQuery |-> FALSE, OmitHost |-> FALSE]
    ELSE IF HasPrefix(rest, <<"/", "/">>)
            /\ (scheme # EmptyStr \/ ~HasPrefix(rest, <<"/", "/", "/">>))
    THEN ParseAuthority(scheme, SubSeq(rest, 3, Len(rest)), query, frag)
    ELSE [Scheme |-> scheme, Opaque |-> EmptyStr, Host |-> EmptyStr,
          Path |-> rest, RawQuery |-> query, Fragment |-> frag,
          ForceQuery |-> FALSE,
          OmitHost |-> (scheme # EmptyStr /\ HasPrefix(rest, <<"/">>))]

\* the query is what follows the first "?"; a lone "?" at the very end is
\* an empty query that is kept (ForceQuery)
ParseAfterScheme(scheme, r1, frag) ==
    IF Len(r1) > 0 /\ r1[Len(r1)] = "?"
       /\ Index(r1, "?") = Len(r1)
    THEN [ParseHier(scheme, SubSeq(r1, 1, Len(r1) - 1), EmptyStr, frag)
             EXCEPT !.ForceQuery = TRUE]
    ELSE Only({ ParseHier(scheme, q.before, q.after, frag) :
                q \in {Cut(r1, "?")} })

ParseAfterFragment(u, frag) ==
    Only({ ParseAfterScheme(sc.scheme, sc.rest, frag) : sc \in {SplitScheme(u)} })

ParseURL(raw) ==
    Only({ ParseAfterFragment(f.before, f.after) : f \in {Cut(raw, "#")} })

\* URL.String(): re-serialization of a parsed URL
URLString(p) ==
    (IF p.Scheme # EmptyStr THEN p.Scheme \o <<":">> ELSE EmptyStr)
    \o (IF p.Opaque # EmptyStr THEN p.Opaque
        ELSE (IF (p.Scheme # EmptyStr \/ p.Host # EmptyStr)
                 /\ ~(p.OmitHost /\ p.Host = EmptyStr)
                 /\ (p.Host # EmptyStr \/ p.Path # EmptyStr)
              THEN <<"/", "/">> \o p.Host ELSE EmptyStr)
             \o (IF p.Path # EmptyStr /\ p.Path[1] # "/" /\ p.Host # EmptyStr
                 THEN <<"/">> ELSE EmptyStr)
             \o p.Path)
    \o (IF p.ForceQuery \/ p.RawQuery # EmptyStr
        THEN <<"?">> \o p.RawQuery ELSE EmptyStr)
    \o (IF p.Fragment # EmptyStr THEN <<"#">> \o p.Fragment ELSE EmptyStr)

\* the body of normalizeURL after url.Parse
Canonical(parsed) ==
    IF parsed.Scheme # <<"http">> /\ parsed.Scheme # <<"https">>
    THEN EmptyStr
    ELSE Only({ URLString([parsed EXCEPT
                    !.Fragment = EmptyStr,
                    !.Path = IF trimmed = EmptyStr THEN <<"/">> ELSE trimmed]) :
                trimmed \in {TrimRightSlash(parsed.Path)} })

\* normalizeURL: "" for a scheme other than http/https, otherwise the URL
\* without its fragment and without the trailing slashes of its path
normalizeURL(rawURL) ==
    Only({ Canonical(parsed) : parsed \in {ParseURL(rawURL)} })

(***************************************************************************)
(* The crawled sites: what the fetch and extraction collaborators return.  *)
(* A page is the list of items ExtractAll yields for it, in order.         *)
(***************************************************************************)
Str(scheme, host, path) == <<scheme, ":", "/", "/", host>> \o path

Link(value, linkType) == [Type |-> "link", Value |-> value, link_type |-> linkType]
Other(type, value) == [Type |-> type, Value |-> value, link_type |-> ""]

uRoot == Str("http", "h", EmptyStr)
nRoot == Str("http", "h", <<"/">>)
nB == Str("http", "h", <<"/", "b">>)
nC == Str("http", "h", <<"/", "c">>)
nD == Str("http", "h", <<"/", "d">>)
nX == Str("http", "x", <<"/", "e">>)
nE == Str("http", "h", <<"/", "e">>)
nF == Str("http", "h", <<"/", "f">>)

\* A links to B and B links back to A (and to itself), through raw URLs that
\* differ from the normalized ones by a trailing slash or a fragment
CyclePage(u) ==
    IF u = nRoot THEN << Link(nB \o <<"/">>, "internal") >>
    ELSE IF u = nB THEN << Link(uRoot \o <<"#", "f">>, "internal"),
                           Link(nB \o <<"#", "f">>, "internal") >>
    ELSE << >>

\* the seed has 2 internal links and 1 external link
FanPage(u) ==
    IF u = nRoot THEN << Link(nB, "internal"), Link(nX, "external"),
                         Link(nC \o <<"/">>, "internal") >>
    ELSE << >>

\* two pages link to the same third page through different raw URLs, and
\* two pages link back to the seed; one page carries a non-link item and a
\* link with an unsupported scheme
DiamondPage(u) ==
    IF u = nRoot THEN << Link(nB, "internal"), Other("email", nD),
                         Link(nC \o <<"/">>, "internal") >>
    ELSE IF u = nB THEN << Link(nD \o <<"/">>, "internal") >>
    ELSE IF u = nC THEN << Link(Str("ftp", "h", <<"/", "d">>), "internal"),
                           Link(nD \o <<"#", "f">>, "internal"),
                           Link(nRoot, "internal") >>
    ELSE IF u = nD THEN << Link(uRoot, "internal") >>
    ELSE << >>

\* the seed has 5 internal links
WidePage(u) ==
    IF u = nRoot THEN << Link(nB, "internal"), Link(nC \o <<"/">>, "internal"),
                         Link(nD \o <<"#", "f">>, "internal"),
                         Link(nE, "internal"), Link(nF, "internal") >>
    ELSE << >>

Sites == {"cycle", "fan", "diamond", "wide"}

Page(site, u) ==
    IF site = "cycle" THEN CyclePage(u)
    ELSE IF site = "fan" THEN FanPage(u)
    ELSE IF site = "wide" THEN WidePage(u)
    ELSE DiamondPage(u)

NURLs == {nRoot, nB, nC, nD, nE, nF, nX}
ItemTypes == {"link", "email"}

\* the normalized URLs that link items of the given link_type, on any page
\* of the site, point to
LinkedBy(site, linkType) ==
    UNION { { normalizeURL(Page(site, u)[i].Value) :
                i \in { j \in 1..Len(Page(site, u)) :
                          /\ Page(site, u)[j].Type = "link"
                          /\ Page(site, u)[j].link_type = linkType } } :
            u \in NURLs }

\* the number of URLs a crawl of the site can visit
SiteSize(site, allowExternal) ==
    Cardinality(({nRoot} \cup LinkedBy(site, "internal")
                 \cup (IF allowExternal THEN LinkedBy(site, "external") ELSE {}))
                \ {EmptyStr})

(***************************************************************************)
(* State.                                                                  *)
(***************************************************************************)
VARIABLES
    config,     \* CrawlConfig, and the site the collaborators serve
    browFetch,  \* c.browFetch != nil
    visited,    \* c.visited: set of normalized URLs
    queue,      \* c.queue: sequence of queueItem
    stats,      \* c.stats
    events,     \* c.events: the buffered channel's content
    closed,     \* number of close(c.events) calls
    stopped,    \* c.stopped
    sem,        \* len(sem): gate slots taken
    wg,         \* the WaitGroup counter
    thr,        \* thread 0 is the caller of Init and Run, 1.. the goroutines
    sink,       \* the output writer: WriteResult and Finalize calls received
    consumer,   \* the reader of Events(): attached or not, what it received
    expired,    \* more than CrawlDuration has passed since Run began
    norm,       \* a string given to normalizeURL and what came back
    locks,      \* the four mutexes and each thread's place in a locking function
    hist        \* what has happened so far (observation only)

\* the state of one crawl
crawlVars == <<config, browFetch, visited, queue, stats, events, closed,
               stopped, sem, wg, thr, sink, consumer, expired, hist>>

vars == <<crawlVars, norm, locks>>

Main == 0
Workers == 1..MaxWorkers
Threads == {Main} \cup Workers

NoItem == [url |-> EmptyStr, depth |-> 0]
NoStats == [PagesQueued |-> 0, PagesCrawled |-> 0, PagesErrored |-> 0,
            ItemsExtracted |-> 0, ItemsByType |-> [t \in ItemTypes |-> 0]]

MainPcs == {"init", "start", "dequeue", "checkstop", "spawn", "wait",
            "finalize", "finerr", "finsnap", "emitfin", "close", "done"}
EnqPcs == {"enq_visit", "enq_append", "enq_stats", "enq_emit"}
\* the positions of a goroutine inside processURL
ProcPcs == {"started", "choose", "fetch", "errstats", "erremit", "write",
            "stats", "snap", "doneemit"} \cup EnqPcs

(***************************************************************************)
(* Fragments of the code, one operator each.                               *)
(***************************************************************************)
\* a send that always gets the event into the buffer
emitAlways(buf, ev) == Append(buf, ev)

\* emit: select { case c.events <- event: ; default: }
emit(buf, ev) == IF Len(buf) < EventCap THEN Append(buf, ev) ELSE buf

\* a send without the default branch: ready only while the buffer has room
emitReadyWhenRoom(buf) == Len(buf) < EventCap

\* the select in emit has a default branch: it is ready whatever the buffer
emitReady(buf) == TRUE

\* a gate that admits every send
semAlwaysFree(n, parallelism) == TRUE

\* sem <- struct{}{} on a channel of capacity Parallelism
semCanSend(n, parallelism) == n < parallelism

\* a visited check that never finds the URL
isVisitedNever(v, n) == FALSE

\* c.visited[normalized]
isVisited(v, n) == n \in v

\* a page cap that does not count the seed
pageCapExcludingSeed(v, maxPages) == Cardinality(v) - 1 >= maxPages

\* the page cap compared with > instead of >=
pageCapOffByOne(v, maxPages) == Cardinality(v) > maxPages

\* no page cap
pageCapNever(v, maxPages) == FALSE

\* len(c.visited) >= c.config.MaxPages
pageCapReached(v, maxPages) == Cardinality(v) >= maxPages

\* no depth test
belowMaxDepthAlways(depth, maxDepth) == TRUE

\* the depth test with <= instead of <
atOrBelowMaxDepth(depth, maxDepth) == depth <= maxDepth

\* item.depth < c.config.MaxDepth
belowMaxDepth(depth, maxDepth) == depth < maxDepth

\* a filter that follows every link, internal or not
followAnyLink(it, allowExternal) == it.Type = "link"

\* extracted.Type == "link" && (linkType == "internal" || AllowExternal)
followLink(it, allowExternal) ==
    it.Type = "link" /\ (it.link_type = "internal" \/ allowExternal)

\* a dequeue that drops the newest item in place of the one it returns
queueDropLast(q) == SubSeq(q, 1, Len(q) - 1)

\* c.queue[1:]
queueRest(q) == Tail(q)

\* a Wait that returns at once
wgWaitSkipped(n) == TRUE

\* wg.Wait() returns when the counter is zero
wgWaitDone(n) == n = 0

\* a stop flag that is never seen
isStoppedNever(s) == FALSE

\* isStopped: c.stopped read under stopMu
isStopped(s) == s

\* an Init that leaves the mode as configured when the browser is missing
keepMode(cfg) == cfg

\* c.config.FetcherMode = FetcherHTTP
downgradeMode(cfg) == [cfg EXCEPT !.FetcherMode = "http"]

\* a failed fetch counted as a crawled page as well
recordPageErrorAsCrawled(st) ==
    [st EXCEPT !.PagesErrored = @ + 1, !.PagesCrawled = @ + 1]

\* c.stats.PagesErrored++
recordPageError(st) == [st EXCEPT !.PagesErrored = @ + 1]

\* a goroutine that ends without telling the WaitGroup
wgDoneMissing(n) == n

\* wg.Done()
wgDone(n) == n - 1

\* a copy of the stats struct alone: its ItemsByType is still the live map
getStatsShallow(st) ==
    [st EXCEPT !.ItemsByType = [live |-> TRUE, m |-> NoStats.ItemsByType]]

\* getStats: a copy of the stats struct whose ItemsByType is a fresh map
\* filled from the live one; a map held by a copy is either that fresh map
\* m or, with live set, a reference to the map of c.stats
getStats(st) ==
    [st EXCEPT !.ItemsByType =
                   [live |-> FALSE, m |-> [t \in ItemTypes |-> st.ItemsByType[t]]]]

\* a stats pointer that was never set to a snapshot
NoSnap == [NoStats EXCEPT !.ItemsByType = [live |-> FALSE, m |-> @]]

\* number of items of type t in a page's item list
RECURSIVE CountType(_, _)
CountType(items, t) ==
    IF items = << >> THEN 0
    ELSE (IF Head(items).Type = t THEN 1 ELSE 0) + CountType(Tail(items), t)

\* a stats update that takes the finished page out of PagesQueued
recordPageDoneUnqueued(st, items) ==
    [st EXCEPT !.PagesQueued = @ - 1,
               !.PagesCrawled = @ + 1,
               !.ItemsExtracted = @ + Len(items),
               !.ItemsByType = [t \in ItemTypes |-> @[t] + CountType(items, t)]]

\* the stats update of processURL after a successful fetch
recordPageDone(st, items) ==
    [st EXCEPT !.PagesCrawled = @ + 1,
               !.ItemsExtracted = @ + Len(items),
               !.ItemsByType = [t \in ItemTypes |-> @[t] + CountType(items, t)]]

\* a summary that reports the queued pages as the crawled ones
buildSummaryOfQueued(st) ==
    [TotalPages |-> st.PagesQueued, TotalErrors |-> st.PagesErrored,
     TotalItems |-> st.ItemsExtracted, ItemsByType |-> st.ItemsByType]

\* buildSummary
buildSummary(st) ==
    [TotalPages |-> st.PagesCrawled, TotalErrors |-> st.PagesErrored,
     TotalItems |-> st.ItemsExtracted, ItemsByType |-> st.ItemsByType]

\* an automatic mode that takes the browser fetcher for every page
chooseFetcherAutoBrowser(mode, brow, crawled) ==
    IF mode = "http" THEN "http"
    ELSE IF brow THEN "browser" ELSE "http"

\* chooseFetcher
chooseFetcher(mode, brow, crawled) ==
    IF mode = "http" THEN "http"
    ELSE IF mode = "browser" THEN (IF brow THEN "browser" ELSE "http")
    ELSE IF mode = "auto" THEN (IF brow /\ crawled = 0 THEN "browser" ELSE "http")
    ELSE "http"

Event(type, url) == [Type |-> type, URL |-> url, Stats |-> NoSnap]
StatsEvent(type, url, snap) == [Type |-> type, URL |-> url, Stats |-> snap]

\* the items of the page thread t is processing
Items(t) == Page(config.site, thr[t].item.url)

\* the loop over items in processURL: the first item after position i that
\* is passed to enqueue, 0 when there is none
RECURSIVE NextLink(_, _, _)
NextLink(items, i, allowExternal) ==
    IF i >= Len(items) THEN 0
    ELSE IF followLink(items[i + 1], allowExternal) THEN i + 1
    ELSE NextLink(items, i + 1, allowExternal)

\* the arguments of the enqueue call thread t is in
EnqRaw(t) == IF t = Main THEN config.TargetURL ELSE Items(t)[thr[t].idx].Value
EnqDepth(t) == IF t = Main THEN 0 ELSE thr[t].item.depth + 1

\* where thread t goes when its enqueue call returns
AfterEnqueue(t) ==
    IF t = Main THEN [thr[t] EXCEPT !.pc = "dequeue"]
    ELSE LET n == NextLink(Items(t), thr[t].idx, config.AllowExternal)
         IN  IF n = 0 THEN [thr[t] EXCEPT !.pc = "release", !.idx = 0]
             ELSE [thr[t] EXCEPT !.pc = "enq_visit", !.idx = n]

(***************************************************************************)
(* Initial state: the Crawler as New returns it, for each configuration.   *)
(***************************************************************************)
StrategyDepthFirst == "depth-first"
StrategyBreadthFirst == "breadth-first"

AnyConfig ==
    [site : Sites, TargetURL : {uRoot},
     MaxDepth : 0..MaxDepthBound, MaxPages : 0..MaxPagesBound,
     Parallelism : 0..MaxParallelism, AllowExternal : BOOLEAN,
     SaveOutput : BOOLEAN, FetcherMode : {"http", "browser", "auto"},
     CrawlDuration : {0, 1},
     Strategy : {StrategyDepthFirst, StrategyBreadthFirst}]

\* the configurations with the Strategy that DefaultConfig sets
Configs == {c \in AnyConfig : c.Strategy = StrategyDepthFirst}

NoThread == [pc |-> "idle", item |-> NoItem, idx |-> 0, fetcher |-> "",
             snap |-> NoSnap]

ZeroCount == [u \in NURLs |-> 0]

\* normalizeURL has not been called
NormIdle == [raw |-> EmptyStr, once |-> EmptyStr, twice |-> EmptyStr,
             stage |-> "idle"]

\* the threads that take the crawler's locks: the control loop, the work
\* units that run at a time, and the signal handler that calls Stop
Signal == MaxParallelism + 1
LockThreads == {Main} \cup (1..MaxParallelism) \cup {Signal}

Mutexes == {"queueMu", "visitMu", "statsMu", "stopMu"}

\* no mutex is held and no thread is inside a locking function
LocksIdle == [held |-> [t \in LockThreads |-> {}],
              at |-> [t \in LockThreads |-> [fn |-> "none", pos |-> 0]]]

\* the Crawler as New returns it
CrawlerNew(cfgs, attached) ==
    /\ config \in cfgs
    /\ browFetch = FALSE
    /\ visited = {}
    /\ queue = << >>
    /\ stats = NoStats
    /\ events = << >>
    /\ closed = 0
    /\ stopped = FALSE
    /\ sem = 0
    /\ wg = 0
    /\ thr = [t \in Threads |-> IF t = Main THEN [NoThread EXCEPT !.pc = "init"]
                                ELSE NoThread]
    /\ sink = [written |-> ZeroCount, finalized |-> 0,
               summary |-> buildSummary(NoSnap)]
    /\ consumer \in [attached : attached, last : {"none"}, eos : {FALSE}]
    /\ expired = FALSE
    /\ hist = [calls |-> ZeroCount, appendCnt |-> ZeroCount,
               statCnt |-> ZeroCount, emitCnt |-> ZeroCount,
               started |-> ZeroCount, created |-> {}, dequeued |-> {},
               done |-> {}, fin |-> "no"]

InitWith(cfgs, attached) ==
    /\ norm = NormIdle
    /\ locks = LocksIdle
    /\ CrawlerNew(cfgs, attached)

\* the limits up to the first value that cannot bind on the site: a page
\* cap of one more than its URLs, a depth limit of their number
LimitsWithinSite(c) ==
    /\ c.MaxPages <= SiteSize(c.site, c.AllowExternal) + 1
    /\ c.MaxDepth <= SiteSize(c.site, c.AllowExternal)

\* every site, limit and degree of parallelism with the default fetcher and
\* no output file, read by nobody; external links are allowed on the one
\* site that has an external link, whose pages are all within depth 1; the
\* four-page site is crawled by up to two work units at a time
CoreConfigs ==
    {c \in Configs : /\ ~c.SaveOutput /\ c.FetcherMode = "http"
                     /\ c.CrawlDuration = 0
                     /\ c.site \in {"cycle", "fan", "diamond"}
                     /\ LimitsWithinSite(c)
                     /\ (c.AllowExternal => c.site = "fan")
                     /\ (c.site = "fan" => c.MaxDepth <= 1)
                     /\ (c.site = "diamond" => c.Parallelism <= 2)}

\* the two-page cyclic site under every fetcher mode, with and without an
\* output file, with and without a consumer of the events
RichConfigs ==
    {c \in Configs : /\ c.site = "cycle" /\ ~c.AllowExternal
                     /\ c.CrawlDuration = 0 /\ LimitsWithinSite(c)}

\* the cyclic site with a consumer reading the events
AttachedConfigs ==
    {c \in RichConfigs : /\ c.FetcherMode = "http" /\ ~c.SaveOutput
                         /\ c.MaxDepth >= 1 /\ c.MaxPages = 2
                         /\ c.Parallelism >= 1}

\* the site whose seed has five internal links, under a page cap of one
WideConfigs ==
    {c \in Configs : /\ c.site = "wide" /\ ~c.AllowExternal /\ ~c.SaveOutput
                     /\ c.FetcherMode = "http" /\ c.CrawlDuration = 0
                     /\ c.MaxDepth >= 1 /\ c.MaxPages = 1
                     /\ c.Parallelism >= 1}

\* automatic fetcher choice on the site whose seed has sibling pages
AutoConfigs ==
    {c \in Configs : /\ c.site = "fan" /\ ~c.AllowExternal /\ ~c.SaveOutput
                     /\ c.FetcherMode = "auto" /\ c.CrawlDuration = 0
                     /\ c.MaxDepth = 1 /\ c.MaxPages = MaxPagesBound
                     /\ c.Parallelism = MaxParallelism}

\* the cyclic site with a crawl-duration ceiling configured
DurationConfigs ==
    {c \in Configs : /\ c.site = "cycle" /\ ~c.AllowExternal /\ ~c.SaveOutput
                     /\ c.FetcherMode = "http" /\ c.CrawlDuration = 1
                     /\ c.MaxDepth = MaxDepthBound /\ c.MaxPages = 2
                     /\ c.Parallelism >= 1}

\* the four-page site, one page at a time, with --strategy breadth-first
BreadthConfigs ==
    {c \in AnyConfig : /\ c.Strategy = StrategyBreadthFirst
                       /\ c.site = "diamond" /\ ~c.AllowExternal
                       /\ ~c.SaveOutput /\ c.FetcherMode = "http"
                       /\ c.CrawlDuration = 0
                       /\ c.MaxDepth = MaxDepthBound
                       /\ c.MaxPages = SiteSize("diamond", FALSE)
                       /\ c.Parallelism = 1}

Init ==
    \/ InitWith(CoreConfigs \cup RichConfigs \cup WideConfigs
                \cup AutoConfigs \cup DurationConfigs \cup BreadthConfigs,
                {FALSE})
    \/ InitWith(AttachedConfigs, {TRUE})

(***************************************************************************)
(* Crawler.Init                                                            *)
(***************************************************************************)
CrawlerInit ==
    /\ thr[Main].pc = "init"
    /\ \/ /\ config.FetcherMode \in {"browser", "auto"}
          /\ \/ /\ browFetch' = TRUE
                /\ UNCHANGED <<config, events>>
             \/ /\ emitReady(events)
                /\ events' = emit(events, Event("error", EmptyStr))
                /\ config' = downgradeMode(config)
                /\ UNCHANGED browFetch
       \/ /\ config.FetcherMode \notin {"browser", "auto"}
          /\ UNCHANGED <<config, browFetch, events>>
    /\ thr' = [thr EXCEPT ![Main].pc = "start"]
    /\ UNCHANGED <<visited, queue, stats, closed, stopped, sem, wg, sink,
                   consumer, hist, expired,
                   norm, locks>>

(***************************************************************************)
(* Crawler.enqueue, called by Run for the seed and by processURL for every *)
(* followed link.  Each critical section is one step.                      *)
(***************************************************************************)
\* normalizeURL, then the visitMu section: visited check, page cap, mark
EnqVisit(t) ==
    /\ thr[t].pc = "enq_visit"
    /\ LET normalized == normalizeURL(EnqRaw(t))
       IN  IF normalized = EmptyStr
           THEN /\ thr' = [thr EXCEPT ![t] = AfterEnqueue(t)]
                /\ UNCHANGED <<visited, hist>>
           ELSE /\ hist' = [hist EXCEPT !.calls[normalized] = @ + 1]
                /\ IF isVisited(visited, normalized)
                      \/ pageCapReached(visited, config.MaxPages)
                   THEN /\ thr' = [thr EXCEPT ![t] = AfterEnqueue(t)]
                        /\ UNCHANGED visited
                   ELSE /\ visited' = visited \cup {normalized}
                        /\ thr' = [thr EXCEPT ![t].pc = "enq_append"]
    /\ UNCHANGED <<config, browFetch, queue, stats, events, closed, stopped,
                   sem, wg, sink, consumer, expired,
                   norm, locks>>

\* the queueMu section: append the queueItem
EnqAppend(t) ==
    /\ thr[t].pc = "enq_append"
    /\ LET it == [url |-> normalizeURL(EnqRaw(t)), depth |-> EnqDepth(t)]
       IN  /\ queue' = Append(queue, it)
           /\ hist' = [hist EXCEPT !.appendCnt[it.url] = @ + 1,
                                   !.created = @ \cup {it}]
    /\ thr' = [thr EXCEPT ![t].pc = "enq_stats"]
    /\ UNCHANGED <<config, browFetch, visited, stats, events, closed, stopped,
                   sem, wg, sink, consumer, expired,
                   norm, locks>>

\* the statsMu section: PagesQueued++
EnqStats(t) ==
    /\ thr[t].pc = "enq_stats"
    /\ stats' = [stats EXCEPT !.PagesQueued = @ + 1]
    /\ hist' = [hist EXCEPT !.statCnt[normalizeURL(EnqRaw(t))] = @ + 1]
    /\ thr' = [thr EXCEPT ![t].pc = "enq_emit"]
    /\ UNCHANGED <<config, browFetch, visited, queue, events, closed, stopped,
                   sem, wg, sink, consumer, expired,
                   norm, locks>>

\* emit the queued event and return
EnqEmit(t) ==
    /\ thr[t].pc = "enq_emit"
    /\ emitReady(events)
    /\ events' = emit(events, Event("queued", normalizeURL(EnqRaw(t))))
    /\ hist' = [hist EXCEPT !.emitCnt[normalizeURL(EnqRaw(t))] = @ + 1]
    /\ thr' = [thr EXCEPT ![t] = AfterEnqueue(t)]
    /\ UNCHANGED <<config, browFetch, visited, queue, stats, closed, stopped,
                   sem, wg, sink, consumer, expired,
                   norm, locks>>

(***************************************************************************)
(* Crawler.Run                                                             *)
(***************************************************************************)
\* emit crawl-started, then call enqueue(TargetURL, 0)
RunStart ==
    /\ thr[Main].pc = "start"
    /\ emitReady(events)
    /\ events' = emit(events, Event("crawl-started", config.TargetURL))
    /\ thr' = [thr EXCEPT ![Main].pc = "enq_visit"]
    /\ UNCHANGED <<config, browFetch, visited, queue, stats, closed, stopped,
                   sem, wg, sink, consumer, hist, expired,
                   norm, locks>>

\* item, ok := c.dequeue(); if !ok { break }
Dequeue ==
    /\ thr[Main].pc = "dequeue"
    /\ IF Len(queue) = 0
       THEN /\ thr' = [thr EXCEPT ![Main].pc = "wait"]
            /\ UNCHANGED <<queue, hist>>
       ELSE /\ thr' = [thr EXCEPT ![Main].pc = "checkstop",
                                  ![Main].item = Head(queue)]
            /\ queue' = queueRest(queue)
            /\ hist' = [hist EXCEPT !.dequeued = @ \cup {Head(queue).url}]
    /\ UNCHANGED <<config, browFetch, visited, stats, events, closed, stopped,
                   sem, wg, sink, consumer, expired,
                   norm, locks>>

\* if c.isStopped() { break }
CheckStop ==
    /\ thr[Main].pc = "checkstop"
    /\ thr' = [thr EXCEPT ![Main].pc = IF isStopped(stopped) THEN "wait"
                                       ELSE "spawn"]
    /\ UNCHANGED <<config, browFetch, visited, queue, stats, events, closed,
                   stopped, sem, wg, sink, consumer, hist, expired,
                   norm, locks>>

\* sem <- struct{}{}; wg.Add(1); go func(item) {...}(item)
Spawn ==
    /\ thr[Main].pc = "spawn"
    /\ semCanSend(sem, config.Parallelism)
    /\ \E w \in Workers :
          /\ thr[w].pc = "idle"
          /\ \A v \in Workers : v < w => thr[v].pc # "idle"
          /\ thr' = [thr EXCEPT ![w].pc = "started", ![w].item = thr[Main].item,
                                ![Main].pc = "dequeue", ![Main].item = NoItem]
          /\ hist' = [hist EXCEPT !.started[thr[Main].item.url] = @ + 1]
    /\ sem' = sem + 1
    /\ wg' = wg + 1
    /\ UNCHANGED <<config, browFetch, visited, queue, stats, events, closed,
                   stopped, sink, consumer, expired,
                   norm, locks>>

\* wg.Wait()
Wait ==
    /\ thr[Main].pc = "wait"
    /\ wgWaitDone(wg)
    /\ thr' = [thr EXCEPT ![Main].pc = IF config.SaveOutput THEN "finalize"
                                       ELSE "finsnap"]
    /\ UNCHANGED <<config, browFetch, visited, queue, stats, events, closed,
                   stopped, sem, wg, sink, consumer, hist, expired,
                   norm, locks>>

\* summary := c.buildSummary(); err := c.writer.Finalize(summary)
Finalize ==
    /\ thr[Main].pc = "finalize"
    /\ sink' = [sink EXCEPT !.finalized = @ + 1,
                            !.summary = buildSummary(getStats(stats))]
    /\ \E ok \in BOOLEAN :
          thr' = [thr EXCEPT ![Main].pc = IF ok THEN "finsnap" ELSE "finerr"]
    /\ UNCHANGED <<config, browFetch, visited, queue, stats, events, closed,
                   stopped, sem, wg, consumer, hist, expired,
                   norm, locks>>

\* the error event of a failed Finalize
FinalizeError ==
    /\ thr[Main].pc = "finerr"
    /\ emitReady(events)
    /\ events' = emit(events, Event("error", EmptyStr))
    /\ thr' = [thr EXCEPT ![Main].pc = "finsnap"]
    /\ UNCHANGED <<config, browFetch, visited, queue, stats, closed, stopped,
                   sem, wg, sink, consumer, hist, expired,
                   norm, locks>>

\* Stats: c.getStats() of the crawl-finished event
FinishSnap ==
    /\ thr[Main].pc = "finsnap"
    /\ thr' = [thr EXCEPT ![Main].pc = "emitfin", ![Main].snap = getStats(stats)]
    /\ UNCHANGED <<config, browFetch, visited, queue, stats, events, closed,
                   stopped, sem, wg, sink, consumer, hist, expired,
                   norm, locks>>

\* emit crawl-finished
EmitFinished ==
    /\ thr[Main].pc = "emitfin"
    /\ emitReady(events)
    /\ events' = emit(events, StatsEvent("crawl-finished", EmptyStr, thr[Main].snap))
    /\ hist' = [hist EXCEPT !.fin = IF events' = events THEN "dropped"
                                    ELSE "buffered"]
    /\ thr' = [thr EXCEPT ![Main].pc = "close", ![Main].snap = NoSnap]
    /\ UNCHANGED <<config, browFetch, visited, queue, stats, closed, stopped,
                   sem, wg, sink, consumer, expired,
                   norm, locks>>

\* close(c.events); return nil
Close ==
    /\ thr[Main].pc = "close"
    /\ closed' = closed + 1
    /\ thr' = [thr EXCEPT ![Main].pc = "done"]
    /\ UNCHANGED <<config, browFetch, visited, queue, stats, events, stopped,
                   sem, wg, sink, consumer, hist, expired,
                   norm, locks>>

\* Crawler.Stop, called from the signal handler
Stop ==
    /\ thr[Main].pc \notin {"init", "done"}
    /\ ~stopped
    /\ stopped' = TRUE
    /\ UNCHANGED <<config, browFetch, visited, queue, stats, events, closed,
                   sem, wg, thr, sink, consumer, hist, expired,
                   norm, locks>>

(***************************************************************************)
(* Crawler.processURL, run by goroutine w for the item it was spawned with *)
(***************************************************************************)
\* emit started; chooseFetcher reads only the configuration unless the mode
\* is auto with a browser fetcher, where it reads the stats under statsMu
Started(w) ==
    /\ thr[w].pc = "started"
    /\ emitReady(events)
    /\ events' = emit(events, Event("started", thr[w].item.url))
    /\ thr' = IF config.FetcherMode = "auto" /\ browFetch
              THEN [thr EXCEPT ![w].pc = "choose"]
              ELSE [thr EXCEPT ![w].pc = "fetch",
                               ![w].fetcher = chooseFetcher(config.FetcherMode,
                                                            browFetch, 0)]
    /\ UNCHANGED <<config, browFetch, visited, queue, stats, closed, stopped,
                   sem, wg, sink, consumer, hist, expired,
                   norm, locks>>

Choose(w) ==
    /\ thr[w].pc = "choose"
    /\ thr' = [thr EXCEPT ![w].pc = "fetch",
                          ![w].fetcher = chooseFetcher(config.FetcherMode,
                                                       browFetch, stats.PagesCrawled)]
    /\ UNCHANGED <<config, browFetch, visited, queue, stats, events, closed,
                   stopped, sem, wg, sink, consumer, hist, expired,
                   norm, locks>>

\* pageData, err := fetchr.Fetch(item.url, item.depth); on success ExtractAll
Fetch(w) ==
    /\ thr[w].pc = "fetch"
    /\ \E ok \in BOOLEAN :
          thr' = [thr EXCEPT ![w].pc = IF ~ok THEN "errstats"
                                       ELSE IF config.SaveOutput THEN "write"
                                       ELSE "stats"]
    /\ UNCHANGED <<config, browFetch, visited, queue, stats, events, closed,
                   stopped, sem, wg, sink, consumer, hist, expired,
                   norm, locks>>

\* c.stats.PagesErrored++
ErrStats(w) ==
    /\ thr[w].pc = "errstats"
    /\ stats' = recordPageError(stats)
    /\ thr' = [thr EXCEPT ![w].pc = "erremit"]
    /\ UNCHANGED <<config, browFetch, visited, queue, events, closed, stopped,
                   sem, wg, sink, consumer, hist, expired,
                   norm, locks>>

\* emit error; return
ErrEmit(w) ==
    /\ thr[w].pc = "erremit"
    /\ emitReady(events)
    /\ events' = emit(events, Event("error", thr[w].item.url))
    /\ thr' = [thr EXCEPT ![w].pc = "release"]
    /\ UNCHANGED <<config, browFetch, visited, queue, stats, closed, stopped,
                   sem, wg, sink, consumer, hist, expired,
                   norm, locks>>

\* _ = c.writer.WriteResult(result)
WriteResult(w) ==
    /\ thr[w].pc = "write"
    /\ sink' = [sink EXCEPT !.written[thr[w].item.url] = @ + 1]
    /\ thr' = [thr EXCEPT ![w].pc = "stats"]
    /\ UNCHANGED <<config, browFetch, visited, queue, stats, events, closed,
                   stopped, sem, wg, consumer, hist, expired,
                   norm, locks>>

\* the statsMu section after a successful fetch
UpdateStats(w) ==
    /\ thr[w].pc = "stats"
    /\ stats' = recordPageDone(stats, Items(w))
    /\ hist' = [hist EXCEPT !.done = @ \cup {thr[w].item.url}]
    /\ thr' = [thr EXCEPT ![w].pc = "snap"]
    /\ UNCHANGED <<config, browFetch, visited, queue, events, closed, stopped,
                   sem, wg, sink, consumer, expired,
                   norm, locks>>

\* Stats: c.getStats() of the done event
DoneSnap(w) ==
    /\ thr[w].pc = "snap"
    /\ thr' = [thr EXCEPT ![w].pc = "doneemit", ![w].snap = getStats(stats)]
    /\ UNCHANGED <<config, browFetch, visited, queue, stats, events, closed,
                   stopped, sem, wg, sink, consumer, hist, expired,
                   norm, locks>>

\* emit done, then the link loop: up to its first enqueue call, or return
DoneEmit(w) ==
    /\ thr[w].pc = "doneemit"
    /\ emitReady(events)
    /\ events' = emit(events, StatsEvent("done", thr[w].item.url, thr[w].snap))
    /\ LET n == IF belowMaxDepth(thr[w].item.depth, config.MaxDepth)
                THEN NextLink(Items(w), 0, config.AllowExternal) ELSE 0
       IN  thr' = IF n = 0
                  THEN [thr EXCEPT ![w].pc = "release", ![w].snap = NoSnap]
                  ELSE [thr EXCEPT ![w].pc = "enq_visit", ![w].idx = n,
                                   ![w].snap = NoSnap]
    /\ UNCHANGED <<config, browFetch, visited, queue, stats, closed, stopped,
                   sem, wg, sink, consumer, hist, expired,
                   norm, locks>>

\* defer func() { <-sem }()
Release(w) ==
    /\ thr[w].pc = "release"
    /\ sem' = sem - 1
    /\ thr' = [thr EXCEPT ![w].pc = "wgdone"]
    /\ UNCHANGED <<config, browFetch, visited, queue, stats, events, closed,
                   stopped, wg, sink, consumer, hist, expired,
                   norm, locks>>

\* defer wg.Done()
WgDone(w) ==
    /\ thr[w].pc = "wgdone"
    /\ wg' = wgDone(wg)
    /\ thr' = [thr EXCEPT ![w].pc = "exit"]
    /\ UNCHANGED <<config, browFetch, visited, queue, stats, events, closed,
                   stopped, sem, sink, consumer, hist, expired,
                   norm, locks>>

(***************************************************************************)
(* The consumer of Events(): for event := range c.Events()                 *)
(***************************************************************************)
ConsumerRecv ==
    /\ consumer.attached
    /\ events # << >>
    /\ consumer' = [consumer EXCEPT !.last = Head(events).Type]
    /\ events' = Tail(events)
    /\ UNCHANGED <<config, browFetch, visited, queue, stats, closed, stopped,
                   sem, wg, thr, sink, hist, expired,
                   norm, locks>>

ConsumerEnd ==
    /\ consumer.attached
    /\ ~consumer.eos
    /\ events = << >>
    /\ closed > 0
    /\ consumer' = [consumer EXCEPT !.eos = TRUE]
    /\ UNCHANGED <<config, browFetch, visited, queue, stats, events, closed,
                   stopped, sem, wg, thr, sink, hist, expired,
                   norm, locks>>

(***************************************************************************)
(* The clock: the configured CrawlDuration runs out while Run is running.  *)
(* Nothing in Run reads the clock or CrawlDuration.                        *)
(***************************************************************************)
DurationElapses ==
    /\ config.CrawlDuration > 0
    /\ thr[Main].pc \notin {"init", "done"}
    /\ ~expired
    /\ expired' = TRUE
    /\ UNCHANGED <<config, browFetch, visited, queue, stats, events, closed,
                   stopped, sem, wg, thr, sink, consumer, hist,
                   norm, locks>>

(***************************************************************************)
(* Specifications                                                          *)
(***************************************************************************)
MainStep ==
    \/ CrawlerInit \/ RunStart \/ Dequeue \/ CheckStop \/ Spawn \/ Wait
    \/ Finalize \/ FinalizeError \/ FinishSnap \/ EmitFinished \/ Close
    \/ EnqVisit(Main) \/ EnqAppend(Main) \/ EnqStats(Main) \/ EnqEmit(Main)

WorkerStep(w) ==
    \/ Started(w) \/ Choose(w) \/ Fetch(w) \/ ErrStats(w) \/ ErrEmit(w)
    \/ WriteResult(w) \/ UpdateStats(w) \/ DoneSnap(w) \/ DoneEmit(w)
    \/ EnqVisit(w) \/ EnqAppend(w) \/ EnqStats(w) \/ EnqEmit(w)
    \/ Release(w) \/ WgDone(w)

Next ==
    \/ MainStep
    \/ \E w \in Workers : WorkerStep(w)
    \/ Stop
    \/ DurationElapses
    \/ ConsumerRecv
    \/ ConsumerEnd

Spec == Init /\ [][Next]_vars

\* a step of Run or of one of its goroutines
ProgramStep == MainStep \/ \E w \in Workers : WorkerStep(w)

\* the Go scheduler runs a runnable goroutine, and every call of a
\* collaborator (fetch, extract, sink) returns
Fairness == WF_vars(ProgramStep)

\* the configurations the progress properties are checked on
FairConfigs ==
    {c \in Configs : /\ c.site = "cycle" /\ ~c.AllowExternal
                     /\ c.FetcherMode = "auto" /\ c.SaveOutput
                     /\ c.CrawlDuration = 0
                     /\ c.MaxDepth = MaxDepthBound
                     /\ c.MaxPages = 2}

\* and the four-page site, whose last page links back to the seed
FairDiamond ==
    {c \in CoreConfigs : /\ c.site = "diamond" /\ ~c.AllowExternal
                         /\ c.MaxDepth = MaxDepthBound
                         /\ c.MaxPages = SiteSize("diamond", FALSE)
                         /\ c.Parallelism = 2}

\* and the cyclic site with a crawl-duration ceiling, one page at a time
FairDuration == {c \in DurationConfigs : c.Parallelism = 1}

FairInit ==
    \/ InitWith(FairConfigs, BOOLEAN)
    \/ InitWith(FairDiamond \cup FairDuration, {FALSE})

FairSpec == FairInit /\ [][Next]_vars /\ Fairness

(***************************************************************************)
(* Observations used by the properties.                                    *)
(***************************************************************************)
\* Run is past wg.Wait()
Finished ==
    thr[Main].pc \in {"finalize", "finerr", "finsnap", "emitfin", "close", "done"}

\* goroutines inside processURL
InProcess == {w \in Workers : thr[w].pc \in ProcPcs}

\* work units that have started and not completed
InFlight == {w \in Workers : thr[w].pc \notin {"idle", "exit"}}

\* Run has returned and every goroutine it started has ended
RunReturned ==
    /\ thr[Main].pc = "done"
    /\ closed = 1
    /\ InFlight = {}

QueuedURLs == {queue[i].url : i \in 1..Len(queue)}

\* threads past the visited check of an enqueue call for u
PastCheck(u) ==
    {t \in Threads : /\ thr[t].pc \in {"enq_append", "enq_stats", "enq_emit"}
                     /\ normalizeURL(EnqRaw(t)) = u}

\* the normalized URLs the followed links of page u lead to
Targets(u) ==
    LET items == Page(config.site, u)
    IN  {normalizeURL(items[i].Value) :
            i \in {j \in 1..Len(items) : followLink(items[j], config.AllowExternal)}}
        \ {EmptyStr}

\* the URLs within MaxDepth links of the seed
RECURSIVE ReachWithin(_, _, _)
ReachWithin(frontier, seen, d) ==
    IF d >= config.MaxDepth \/ frontier = {} THEN seen
    ELSE LET next == UNION {Targets(u) : u \in frontier} \ seen
         IN  ReachWithin(next, seen \cup next, d + 1)

Reachable ==
    LET seed == normalizeURL(config.TargetURL)
    IN  IF seed = EmptyStr THEN {} ELSE ReachWithin({seed}, {seed}, 0)

\* for each site, the URLs no internal link points to and some external
\* link does
ExternalOnlyAt ==
    [site \in Sites |-> LinkedBy(site, "external") \ LinkedBy(site, "internal")]

\* the URLs found only through external links
ExternalOnly == ExternalOnlyAt[config.site] \ {normalizeURL(config.TargetURL)}

(***************************************************************************)
(* Properties                                                              *)
(***************************************************************************)
\* C1: when Stop has not been called, Run is past wg.Wait() only with an
\* empty pending queue and no work unit in flight, so an item enqueued by a
\* work unit after the control loop saw the queue empty is still processed.
C1_QuiescentAtFinished ==
    (Finished /\ ~stopped) => (queue = << >> /\ InFlight = {})

\* C2: without Stop, with Parallelism >= 1, no failed fetch and a page cap
\* that does not bind, Run returns having crawled exactly the distinct
\* normalized URLs within MaxDepth followed links of the seed.
C2_CrawlsAllReachable ==
    (/\ RunReturned /\ ~stopped /\ config.Parallelism >= 1
     /\ stats.PagesErrored = 0
     /\ config.MaxPages >= Cardinality(Reachable))
    => stats.PagesCrawled = Cardinality(Reachable)

\* C3: with Parallelism >= 1 and every fetch returning, Run eventually
\* returns: the control loop has exited, every work unit has completed,
\* crawl-finished was emitted and the event channel is closed.
C3_RunTerminates ==
    (config.Parallelism >= 1) ~> RunReturned

\* C3 witness: Run returned on the cyclic site after both pages, each
\* linking to the other, were processed
C3_Witness ==
    /\ RunReturned
    /\ config.site = "cycle"
    /\ hist.done = {nRoot, nB}
    /\ hist.calls[nRoot] >= 2

\* C4: the visited set never holds more than MaxPages entries, and from a
\* state where it holds MaxPages no step adds a URL to the visited set or
\* appends to the queue a URL that is not already in the visited set.
C4_PageCap ==
    /\ [](Cardinality(visited) <= config.MaxPages)
    /\ [][Cardinality(visited) >= config.MaxPages
          => /\ visited' = visited
             /\ \A i \in 1..Len(queue') :
                   i > Len(queue) => queue'[i].url \in visited]_vars

\* C4 witness: the cap is reached with several pages and an enqueue call
\* for a further URL has been turned away
C4_Witness ==
    /\ config.MaxPages >= 2
    /\ Cardinality(visited) = config.MaxPages
    /\ \E u \in NURLs : hist.calls[u] > 0 /\ u \notin visited

C6_ExactlyOnePerURL ==
    \A u \in NURLs :
        (config.MaxPages >= 1 /\ hist.calls[u] > 0 /\ PastCheck(u) = {})
        => /\ hist.appendCnt[u] = 1
           /\ hist.statCnt[u] = 1
           /\ hist.emitCnt[u] = 1

\* C6 amended: at most one enqueue call per normalized URL passes the
\* visited check, so at most one item is appended, PagesQueued is
\* incremented at most once and at most one queued event is emitted for it;
\* once the calls have returned it is exactly one of each if the URL is in
\* the visited set, and none only if the page cap turned every call away.
C6_AtMostOnePerURL ==
    \A u \in NURLs :
        /\ Cardinality(PastCheck(u)) + hist.emitCnt[u] <= 1
        /\ hist.appendCnt[u] <= 1
        /\ hist.statCnt[u] <= 1
        /\ (hist.calls[u] > 0 /\ PastCheck(u) = {})
           => /\ hist.appendCnt[u] = (IF u \in visited THEN 1 ELSE 0)
              /\ hist.statCnt[u] = hist.appendCnt[u]
              /\ hist.emitCnt[u] = hist.appendCnt[u]
              /\ u \notin visited => Cardinality(visited) >= config.MaxPages

\* C6 witness: two work units in flight at the same time have both called
\* enqueue for the same page, through different raw URLs, and one item
\* was appended
C6_Witness ==
    /\ config.site = "diamond"
    /\ hist.calls[nD] = 2
    /\ PastCheck(nD) = {}
    /\ hist.appendCnt[nD] = 1
    /\ hist.emitCnt[nD] = 1
    /\ {nB, nC} \subseteq {thr[w].item.url : w \in InFlight}

\* C7: the goroutines inside processURL never outnumber Parallelism; the
\* gate holds one slot for each goroutine that was started and has not
\* yet released it, whether its fetch succeeded or failed.
C7_GateBound ==
    /\ Cardinality(InProcess) <= config.Parallelism
    /\ sem <= config.Parallelism
    /\ sem = Cardinality({w \in Workers : thr[w].pc \in ProcPcs \cup {"release"}})

\* C7 witness: Parallelism work units are running and the control loop is
\* waiting at the gate with a further item
C7_Witness ==
    /\ config.Parallelism >= 2
    /\ Cardinality(InProcess) = config.Parallelism
    /\ thr[Main].pc = "spawn"

\* C8: whenever the control loop is about to dequeue, every URL of the
\* visited set has its item in the pending queue or already dequeued.
C8_EnqueueAtomic ==
    thr[Main].pc = "dequeue"
    => \A u \in visited : u \in QueuedURLs \/ u \in hist.dequeued

\* C9: a normalized URL gets at most one item and at most one work unit,
\* no more than MaxPages work units are started, and past wg.Wait()
\* PagesCrawled + PagesErrored is the number started, at most MaxPages.
C9_OneUnitPerURL ==
    /\ \A u \in NURLs : hist.appendCnt[u] <= 1 /\ hist.started[u] <= 1
    /\ Cardinality({w \in Workers : thr[w].pc # "idle"}) <= config.MaxPages
    /\ Finished
       => /\ stats.PagesCrawled + stats.PagesErrored
               = Cardinality({w \in Workers : thr[w].pc # "idle"})
          /\ stats.PagesCrawled + stats.PagesErrored <= config.MaxPages

\* C9 witness: Run is past wg.Wait() with MaxPages work units done, after
\* a page was linked to more than once and another was turned away
C9_Witness ==
    /\ Finished
    /\ config.MaxPages >= 2
    /\ stats.PagesCrawled + stats.PagesErrored = config.MaxPages
    /\ \E u \in NURLs : hist.calls[u] >= 2 /\ hist.started[u] = 1
    /\ \E u \in NURLs : hist.calls[u] >= 1 /\ u \notin visited

\* the positions at which a thread is about to call emit
EmitPcs == {"start", "enq_emit", "started", "erremit", "doneemit", "finerr",
            "emitfin"}

Step(t) == IF t = Main THEN MainStep ELSE WorkerStep(t)

\* C10: a thread about to emit can always take its step; when the buffer
\* is full the step leaves the buffer as it is; and with no consumer, once
\* the buffer is full, every work unit and Run itself still complete.
C10_EmitNeverBlocks ==
    /\ [](\A t \in Threads : thr[t].pc \in EmitPcs => ENABLED Step(t))
    /\ [][\A t \in Threads :
            (thr[t].pc \in EmitPcs /\ thr'[t] # thr[t] /\ Len(events) = EventCap)
            => events' = events]_vars
    /\ (~consumer.attached /\ Len(events) = EventCap /\ config.Parallelism >= 1)
       ~> RunReturned

\* C10 witness: nobody reads the events, the buffer is full, pages were
\* crawled and Run returned; the crawl-finished event itself was dropped
C10_Witness ==
    /\ ~consumer.attached
    /\ RunReturned
    /\ Len(events) = EventCap
    /\ Cardinality(hist.done) >= 2
    /\ \A i \in 1..Len(events) : events[i].Type # "crawl-finished"

\* C11: the event channel is closed at most once; the close is the step
\* of Run that follows the emit of crawl-finished and is taken with every
\* work unit completed; once the channel is closed no thread is at an emit
\* call and nothing is added to the channel.
C11_ClosedOnceAtEnd ==
    /\ [](closed <= 1)
    /\ [](closed = 1 => /\ thr[Main].pc = "done"
                        /\ InFlight = {}
                        /\ \A t \in Threads : thr[t].pc \notin EmitPcs)
    /\ [][closed' # closed
          => /\ closed = 0 /\ closed' = 1
             /\ thr[Main].pc = "close"
             /\ InFlight = {}]_vars
    /\ [][(thr'[Main].pc = "close" /\ thr[Main].pc # "close")
          => /\ thr[Main].pc = "emitfin"
             /\ events' = emit(events, StatsEvent("crawl-finished", EmptyStr,
                                                  thr[Main].snap))]_vars
    /\ [][closed >= 1 => Len(events') <= Len(events)]_vars

\* C11 witness: the channel is closed after two work units ended, one of
\* them on the error path
C11_Witness ==
    /\ closed = 1
    /\ Cardinality({w \in Workers : thr[w].pc = "exit"}) >= 2
    /\ stats.PagesErrored >= 1
    /\ ~stopped

\* C12: a work unit whose fetch failed adds one to PagesErrored and nothing
\* else to the stats, then emits one error event with its URL and returns;
\* neither step touches the sink, the visited set, the queue, the stop flag
\* or the control loop, and a work unit on this path is never at
\* WriteResult, the stats update of a crawled page or an enqueue call.
C12_FetchErrorPath ==
    /\ [][\A w \in Workers :
            (thr[w].pc = "errstats" /\ thr'[w] # thr[w])
            => /\ thr'[w] = [thr[w] EXCEPT !.pc = "erremit"]
               /\ stats' = [stats EXCEPT !.PagesErrored = @ + 1]
               /\ UNCHANGED <<sink, visited, queue, stopped, events, closed,
                              hist, thr[Main],
                   norm, locks>>]_vars
    /\ [][\A w \in Workers :
            (thr[w].pc = "erremit" /\ thr'[w] # thr[w])
            => /\ thr'[w] = [thr[w] EXCEPT !.pc = "release"]
               /\ events' = emit(events, Event("error", thr[w].item.url))
               /\ UNCHANGED <<sink, visited, queue, stopped, stats, closed,
                              hist, thr[Main],
                   norm, locks>>]_vars

\* C12 witness: on the four-page site the fetch of B failed and the crawl
\* went on: D, found through C, was crawled after it and Run returned
C12_Witness ==
    /\ RunReturned
    /\ config.site = "diamond"
    /\ hist.started[nB] = 1 /\ nB \notin hist.done
    /\ stats.PagesErrored = 1
    /\ {nRoot, nC, nD} \subseteq hist.done

\* C13: in automatic mode with the browser fetcher available, a work unit
\* that has chosen its fetcher has the browser fetcher exactly when its page
\* is the seed, the first page of the crawl.
C13_BrowserOnlyFirstPage ==
    (config.FetcherMode = "auto" /\ browFetch)
    => \A w \in Workers :
          thr[w].pc \notin {"idle", "started", "choose"}
          => (thr[w].fetcher = "browser"
              <=> thr[w].item.url = normalizeURL(config.TargetURL))

\* C13 witness: the seed was fetched with the browser fetcher; of its two
\* sibling pages one has failed and the other, processed at the same time,
\* is being fetched with the basic fetcher
C13_Witness ==
    /\ config.FetcherMode = "auto" /\ browFetch
    /\ config.site = "fan"
    /\ stats.PagesErrored = 1
    /\ \E r, b, c \in Workers :
          /\ thr[r].item.url = nRoot /\ thr[r].fetcher = "browser"
          /\ thr[b].item.url = nB /\ thr[b].pc = "release"
          /\ nB \notin hist.done
          /\ thr[c].item.url = nC /\ thr[c].pc = "fetch"
          /\ thr[c].fetcher = "http"

\* C14: when Init finds no browser fetcher in browser or automatic mode it
\* still returns, having emitted one event into the empty channel and set
\* the mode to http; after Init the mode and the missing browser fetcher
\* never change, and every work unit is given the http fetcher.
C14_BrowserInitFallback ==
    /\ [][(/\ thr[Main].pc = "init" /\ thr'[Main].pc # "init"
           /\ config.FetcherMode \in {"browser", "auto"} /\ ~browFetch')
          => /\ thr'[Main].pc = "start"
             /\ config' = [config EXCEPT !.FetcherMode = "http"]
             /\ events' = << Event("error", EmptyStr) >>]_vars
    /\ []((thr[Main].pc # "init" /\ ~browFetch)
          => /\ config.FetcherMode = "http"
             /\ \A w \in Workers : thr[w].fetcher \in {"", "http"})
    /\ [][thr[Main].pc # "init"
          => browFetch' = browFetch /\ config' = config]_vars

\* C14 witness: the event of the failed initialisation is still at the head
\* of the channel while the second page is fetched with the http fetcher
C14_Witness ==
    /\ ~browFetch /\ ~Finished
    /\ events # << >> /\ Head(events) = Event("error", EmptyStr)
    /\ nRoot \in hist.done
    /\ \E w \in Workers :
          thr[w].item.url = nB /\ thr[w].pc = "fetch" /\ thr[w].fetcher = "http"

\* C15: when the control loop checks the flag after Stop it leaves the loop
\* for wg.Wait(); from then on no work unit is started; Run is past
\* wg.Wait() only with no work unit in flight; a work unit in flight when
\* the flag is set can always take its next step, and eventually every
\* work unit that was started has completed;
\* and Run, waiting with the flag set, eventually returns.
C15_StopLetsUnitsFinish ==
    /\ [][(thr[Main].pc = "checkstop" /\ stopped /\ thr'[Main] # thr[Main])
          => thr'[Main].pc = "wait"]_vars
    /\ [][(thr[Main].pc = "wait" \/ Finished)
          => /\ hist'.started = hist.started
             /\ \A w \in Workers : thr[w].pc = "idle" => thr'[w].pc = "idle"]_vars
    /\ [](Finished => InFlight = {})
    /\ [](stopped => \A w \in InFlight : ENABLED WorkerStep(w))
    /\ stopped ~> (InFlight = {})
    /\ (stopped /\ thr[Main].pc = "wait") ~> RunReturned

\* C15 witness: the control loop dequeued an item, saw the flag and went to
\* wg.Wait() without starting it, while a work unit is inside processURL
C15_Witness ==
    /\ stopped
    /\ thr[Main].pc = "wait"
    /\ InProcess # {}
    /\ \E u \in hist.dequeued : hist.started[u] = 0

\* C16: when the configured crawl duration has run out, the control loop,
\* at the point where it checks the stop flag, does not go on to start the
\* work unit of the item it dequeued.
C16_DurationCeilingStops ==
    [][(config.CrawlDuration > 0 /\ expired /\ thr[Main].pc = "checkstop")
       => thr'[Main].pc # "spawn"]_vars

\* C17: with MaxDepth = 0, once the seed has been fetched successfully one
\* page is crawled and one was queued, the visited set holds the seed only,
\* the pending queue is empty, no work unit is inside an enqueue call, and
\* the summary handed to Finalize has TotalPages = 1.
C17_DepthZeroSeedOnly ==
    (config.MaxDepth = 0 /\ normalizeURL(config.TargetURL) \in hist.done)
    => /\ stats.PagesCrawled = 1
       /\ stats.PagesQueued = 1
       /\ visited = {normalizeURL(config.TargetURL)}
       /\ queue = << >>
       /\ \A w \in Workers : thr[w].pc \notin EnqPcs
       /\ sink.finalized >= 1 => sink.summary.TotalPages = 1

\* C17 witness: Run returned with MaxDepth = 0 after the seed, a page with
\* a link on it, was crawled and the summary was handed to the sink
C17_Witness ==
    /\ config.MaxDepth = 0
    /\ RunReturned
    /\ nRoot \in hist.done
    /\ NextLink(Page(config.site, nRoot), 0, config.AllowExternal) # 0
    /\ sink.finalized = 1
    /\ sink.summary.TotalPages = 1

\* C18: with MaxPages = 1 the visited set never holds more than one URL,
\* no work unit's enqueue call gets past the visited check and the page
\* cap, at most one work unit is started, the queue is empty once the seed
\* has been dequeued, and when Run has returned after a successful fetch of
\* the seed exactly one page was crawled.
C18_PageCapOne ==
    config.MaxPages = 1
    => /\ Cardinality(visited) <= 1
       /\ \A w \in Workers : thr[w].pc \notin {"enq_append", "enq_stats", "enq_emit"}
       /\ Cardinality({w \in Workers : thr[w].pc # "idle"}) <= 1
       /\ hist.dequeued # {} => queue = << >>
       /\ stats.PagesCrawled + stats.PagesErrored <= 1
       /\ (RunReturned /\ hist.done # {})
          => /\ stats.PagesCrawled = 1
             /\ visited = {normalizeURL(config.TargetURL)}
             /\ stats.PagesQueued = 1

\* C18 witness: Run returned under MaxPages = 1 after the seed page, with
\* its 5 internal links each passed to enqueue once, was crawled
C18_Witness ==
    /\ config.MaxPages = 1
    /\ config.site = "wide"
    /\ RunReturned
    /\ \A u \in {nB, nC, nD, nE, nF} : hist.calls[u] = 1
    /\ visited = {nRoot}
    /\ queue = << >>
    /\ stats.PagesCrawled = 1

\* C19: an enqueue call of a work unit is always for an item of type link;
\* with AllowExternal off it is for an internal link, and a URL found only
\* through external links has no enqueue call, is not in the visited set
\* or the queue, and no work unit is started for it.
C19_InternalLinksOnly ==
    /\ \A w \in Workers :
          thr[w].pc \in EnqPcs => Items(w)[thr[w].idx].Type = "link"
    /\ ~config.AllowExternal
       => /\ \A w \in Workers :
                thr[w].pc \in EnqPcs
                => Items(w)[thr[w].idx].link_type = "internal"
          /\ \A u \in ExternalOnly :
                /\ hist.calls[u] = 0
                /\ u \notin visited
                /\ u \notin QueuedURLs
                /\ hist.started[u] = 0

\* C19 witness: with AllowExternal off Run returned after the seed, whose
\* page has an external link between two internal ones, was crawled and
\* both internal links were passed to enqueue
C19_Witness ==
    /\ ~config.AllowExternal
    /\ config.site = "fan"
    /\ RunReturned
    /\ nRoot \in hist.done
    /\ hist.calls[nB] = 1 /\ hist.calls[nC] = 1
    /\ nX \in ExternalOnly
    /\ hist.calls[nX] = 0

\* C20: the sink receives at most one WriteResult per URL, one for every
\* page whose fetch succeeded and whose stats are recorded, none for a page
\* whose fetch failed; Finalize is called at most once, only with no work
\* unit in flight, exactly once when Run with a sink is past it, with a
\* summary equal to the stats as they are from then on; without a sink
\* neither is called.
C20_SinkCalls ==
    /\ \A u \in NURLs :
          /\ sink.written[u] <= 1
          /\ (config.SaveOutput /\ u \in hist.done) => sink.written[u] = 1
          /\ sink.written[u] = 1
             => \/ u \in hist.done
                \/ \E w \in Workers : thr[w].pc = "stats" /\ thr[w].item.url = u
    /\ sink.finalized <= 1
    /\ sink.finalized = 1
       => /\ InFlight = {}
          /\ sink.summary.TotalPages = stats.PagesCrawled
          /\ sink.summary.TotalErrors = stats.PagesErrored
          /\ sink.summary.TotalItems = stats.ItemsExtracted
          /\ Cardinality({u \in NURLs : sink.written[u] = 1}) = stats.PagesCrawled
    /\ (config.SaveOutput
        /\ thr[Main].pc \in {"finerr", "finsnap", "emitfin", "close", "done"})
       => sink.finalized = 1
    /\ ~config.SaveOutput
       => sink.finalized = 0 /\ \A u \in NURLs : sink.written[u] = 0

\* C20 witness: Run with a sink returned after one page was fetched and
\* written and the fetch of the other failed
C20_Witness ==
    /\ config.SaveOutput
    /\ RunReturned
    /\ sink.finalized = 1
    /\ sink.written[nRoot] = 1
    /\ hist.started[nB] = 1 /\ sink.written[nB] = 0
    /\ sink.summary.TotalPages = 1 /\ sink.summary.TotalErrors = 1

\* C21: an enqueue call that is rejected, because normalizeURL returns the
\* empty string, because the URL is already in the visited set, or because
\* the visited set already holds MaxPages URLs, returns at once: the call
\* never reaches its append, its PagesQueued++ or its queued event, and its
\* step leaves the visited set, the queue, the stats and the event buffer as
\* they were.
C21_RejectedEnqueueNoEffect ==
    [][\A t \in Threads :
          (/\ thr[t].pc = "enq_visit"
           /\ thr'[t] # thr[t]
           /\ \/ normalizeURL(EnqRaw(t)) = EmptyStr
              \/ normalizeURL(EnqRaw(t)) \in visited
              \/ Cardinality(visited) >= config.MaxPages)
          => /\ thr'[t].pc \notin {"enq_append", "enq_stats", "enq_emit"}
             /\ UNCHANGED <<visited, queue, stats, events>>]_vars

\* C21 witness: the crawl is over after a second enqueue of the seed was
\* rejected as visited and an enqueue of another URL was rejected by the
\* page cap; the seed was appended, counted and announced once, the other
\* URL never
C21_Witness ==
    /\ Finished
    /\ hist.calls[nRoot] >= 2
    /\ hist.appendCnt[nRoot] = 1 /\ hist.statCnt[nRoot] = 1
    /\ hist.emitCnt[nRoot] = 1
    /\ \E u \in NURLs :
          /\ hist.calls[u] >= 1
          /\ u \notin visited
          /\ hist.appendCnt[u] = 0 /\ hist.statCnt[u] = 0
          /\ hist.emitCnt[u] = 0
    /\ stats.PagesQueued = Cardinality(visited)

\* C22: no step of any thread decreases a stats counter: PagesQueued,
\* PagesCrawled, PagesErrored, ItemsExtracted and the count of every item
\* type only stay or grow.
C22_CountersMonotone ==
    [][/\ stats'.PagesQueued >= stats.PagesQueued
       /\ stats'.PagesCrawled >= stats.PagesCrawled
       /\ stats'.PagesErrored >= stats.PagesErrored
       /\ stats'.ItemsExtracted >= stats.ItemsExtracted
       /\ \A t \in ItemTypes :
             stats'.ItemsByType[t] >= stats.ItemsByType[t]]_vars

\* C22 witness: every counter has grown: two pages were crawled, one fetch
\* failed, and items of both types were counted
C22_Witness ==
    /\ stats.PagesQueued >= 3
    /\ stats.PagesCrawled >= 2
    /\ stats.PagesErrored >= 1
    /\ stats.ItemsExtracted >= 4
    /\ \A t \in ItemTypes : stats.ItemsByType[t] >= 1

\* what the holder of a stats copy reads in its ItemsByType map
ReadByType(snap) ==
    IF snap.ItemsByType.live THEN stats.ItemsByType ELSE snap.ItemsByType.m

\* the stats copies handed out and still held: by a thread between getStats
\* and its emit, and in the buffered done and crawl-finished events
Snapshots ==
    {thr[t].snap : t \in {u \in Threads : thr[u].pc \in {"doneemit", "emitfin"}}}
    \cup {events[i].Stats :
             i \in {j \in 1..Len(events) :
                       events[j].Type \in {"done", "crawl-finished"}}}

\* the number of items of type ty that the stats updates of the pages in
\* done add up to
RECURSIVE ItemsOfPages(_, _)
ItemsOfPages(done, ty) ==
    IF done = {} THEN 0
    ELSE LET u == CHOOSE x \in done : TRUE
         IN  CountType(Page(config.site, u), ty)
             + ItemsOfPages(done \ {u}, ty)

\* C23: every stats copy handed out by getStats is whole: its ItemsExtracted
\* is the sum of the counts its holder reads in ItemsByType, and its
\* PagesCrawled, ItemsExtracted and ItemsByType are those of a set of pages
\* whose stats update is complete; and what the holder of a copy reads in
\* it is the same after any step that leaves the copy with its holder.
C23_SnapshotWhole ==
    /\ [](\A s \in Snapshots :
             /\ s.ItemsExtracted
                = ReadByType(s)["link"] + ReadByType(s)["email"]
             /\ \E done \in SUBSET hist.done :
                   /\ s.PagesCrawled = Cardinality(done)
                   /\ \A ty \in ItemTypes :
                         ReadByType(s)[ty] = ItemsOfPages(done, ty))
    /\ [][/\ \A t \in Threads :
                (thr[t].pc \in {"doneemit", "emitfin"} /\ thr'[t] = thr[t])
                => ReadByType(thr[t].snap)' = ReadByType(thr[t].snap)
          /\ \A i \in 1..Len(events) :
                (i <= Len(events') /\ events'[i] = events[i])
                => ReadByType(events[i].Stats)'
                   = ReadByType(events[i].Stats)]_vars

\* C23 witness: a done event is in the buffer whose stats copy shows one
\* crawled page with its items while the live stats have moved on to two
C23_Witness ==
    \E i \in 1..Len(events) :
       /\ events[i].Type = "done"
       /\ events[i].Stats.PagesCrawled = 1
       /\ events[i].Stats.ItemsExtracted >= 1
       /\ stats.PagesCrawled = 2
       /\ stats.ItemsExtracted > events[i].Stats.ItemsExtracted
       /\ ReadByType(events[i].Stats) # stats.ItemsByType

\* C28: once the work unit of a URL is past its started event, the enqueue
\* call that appended the URL has done its PagesQueued++ and its queued
\* event; and the stats, live or in a copy handed out, never count more
\* crawled and errored pages than queued ones.
C28_QueuedBeforeProcessing ==
    /\ \A w \in Workers :
          thr[w].pc \notin {"idle", "started"}
          => /\ hist.statCnt[thr[w].item.url] >= 1
             /\ hist.emitCnt[thr[w].item.url] >= 1
    /\ stats.PagesCrawled + stats.PagesErrored <= stats.PagesQueued
    /\ \A s \in Snapshots :
          s.PagesCrawled + s.PagesErrored <= s.PagesQueued

\* C29 as stated: with Parallelism = 0 and the seed appended to the queue,
\* Run never gets past wg.Wait().
C29_ZeroParallelismNeverFinished ==
    (config.Parallelism = 0 /\ hist.created # {}) => ~Finished

\* C29: with Parallelism = 0 no work unit ever starts and no gate slot is
\* ever taken; once the control loop is at the gate with the seed it stays
\* there whatever the other threads do, a later Stop included; and Run gets
\* past wg.Wait() only if the seed was rejected by enqueue or Stop was
\* called before the loop's stop check.
C29_ZeroParallelismBlocks ==
    /\ [](config.Parallelism = 0
          => /\ \A w \in Workers : thr[w].pc = "idle"
             /\ sem = 0
             /\ \A u \in NURLs : hist.started[u] = 0
             /\ (Finished => (hist.created = {} \/ stopped)))
    /\ [][(config.Parallelism = 0 /\ thr[Main].pc = "spawn")
          => thr'[Main] = thr[Main]]_vars

\* C29 witness: the control loop is at the gate with the seed, the queue is
\* empty, and Stop has been called since the loop's stop check
C29_Witness ==
    /\ config.Parallelism = 0
    /\ thr[Main].pc = "spawn"
    /\ thr[Main].item = [url |-> nRoot, depth |-> 0]
    /\ queue = << >>
    /\ stopped

\* C30: the emit of crawl-finished leaves a full buffer as it is and
\* otherwise appends the event at its end. When it was dropped the event is
\* never in the buffer and never received; when it was buffered it is the
\* last event of the buffer until the consumer receives it, and it is then
\* the last event the consumer received. The consumer sees end-of-stream
\* only after that emit: without crawl-finished if it was dropped, with it
\* as the last event if it was buffered.
C30_FinishedEventLossy ==
    /\ [](/\ hist.fin = "dropped"
             => /\ consumer.last # "crawl-finished"
                /\ \A i \in 1..Len(events) : events[i].Type # "crawl-finished"
          /\ hist.fin = "buffered"
             => \/ /\ events # << >>
                   /\ events[Len(events)].Type = "crawl-finished"
                \/ events = << >> /\ consumer.last = "crawl-finished"
          /\ hist.fin = "no" => consumer.last # "crawl-finished"
          /\ consumer.eos
             => /\ hist.fin # "no"
                /\ hist.fin = "dropped" <=> consumer.last # "crawl-finished")
    /\ [][(thr[Main].pc = "emitfin" /\ thr'[Main].pc = "close")
          => IF Len(events) >= EventCap
             THEN events' = events /\ hist'.fin = "dropped"
             ELSE /\ events' = Append(events,
                                      StatsEvent("crawl-finished", EmptyStr,
                                                 thr[Main].snap))
                  /\ hist'.fin = "buffered"]_vars

\* C30 witness: the buffer was full when Run emitted crawl-finished; the
\* consumer has received what was buffered and seen end-of-stream, and the
\* last event it received is not crawl-finished
C30_Witness ==
    /\ consumer.attached
    /\ consumer.eos
    /\ hist.fin = "dropped"
    /\ consumer.last \notin {"none", "crawl-finished"}
    /\ RunReturned

RECURSIVE Tails(_)
Tails(n) ==
    IF n = 0 THEN {EmptyStr}
    ELSE LET shorter == Tails(n - 1)
         IN  shorter \cup {Append(t, ch) : t \in shorter,
                                          ch \in {"/", "h", "?", "#"}}

\* what a raw URL starts with: nothing, a bare colon, a scheme, a scheme
\* with an empty authority or with a host
Heads ==
    {EmptyStr, <<":">>, <<"ftp", ":">>, <<"ftp", ":", "/", "/", "h">>,
     <<"http", ":">>, <<"http", ":", "/", "/">>, <<"http", ":", "/", "/", "h">>,
     <<"https", ":", "/", "/", "h">>}

RawURLs == {hd \o tl : hd \in Heads, tl \in Tails(MaxTailLen)}

NormInit ==
    /\ norm \in [raw : RawURLs, once : {EmptyStr}, twice : {EmptyStr},
                 stage : {"raw"}]
    /\ locks = LocksIdle
    /\ CrawlerNew({c \in FairDuration : TRUE}, {FALSE})

\* normalized := normalizeURL(rawURL)
NormalizeOnce ==
    /\ norm.stage = "raw"
    /\ norm' = [norm EXCEPT !.once = normalizeURL(norm.raw), !.stage = "once"]
    /\ UNCHANGED <<crawlVars, locks>>

\* normalizeURL applied to a URL it returned
NormalizeTwice ==
    /\ norm.stage = "once"
    /\ norm.once # EmptyStr
    /\ norm' = [norm EXCEPT !.twice = normalizeURL(norm.once), !.stage = "twice"]
    /\ UNCHANGED <<crawlVars, locks>>

NormNext == NormalizeOnce \/ NormalizeTwice

NormSpec == NormInit /\ [][NormNext]_vars

\* C24: normalizeURL applied to a URL it returned gives that URL back.
C24_NormalizeIdempotent ==
    norm.stage = "twice" => norm.twice = norm.once

\* C24 witness: normalizeURL changed a URL with a doubled trailing slash and
\* was applied again to what it returned
C24_Witness ==
    /\ norm.stage = "twice"
    /\ norm.raw = <<"http", ":", "/", "/", "h", "/", "h", "/", "/">>
    /\ norm.once = <<"http", ":", "/", "/", "h", "/", "h">>
    /\ norm.twice = norm.once

\* C25: normalizeURL returns the empty string when the scheme is not http or
\* https, and otherwise the URL re-serialized with the fragment cleared, the
\* query as it was and one trailing slash taken off the path, "/" when that
\* leaves the path empty.
C25_SingleSlashStripped ==
    norm.stage # "raw"
    => norm.once
       = (IF ParseURL(norm.raw).Scheme \notin {<<"http">>, <<"https">>}
          THEN EmptyStr
          ELSE URLString([ParseURL(norm.raw) EXCEPT
                   !.Fragment = EmptyStr,
                   !.Path = IF TrimSuffixSlash(@) = EmptyStr THEN <<"/">>
                            ELSE TrimSuffixSlash(@)]))

(***************************************************************************)
(* The locking of the crawler on its own: what each function that takes a  *)
(* mutex locks and unlocks, in order, and the threads that call them.      *)
(***************************************************************************)
Lock(mu) == [op |-> "lock", mu |-> mu]
Unlock(mu) == [op |-> "unlock", mu |-> mu]

\* an enqueue that appends while it still holds visitMu
enqueueLocksNested ==
    <<Lock("visitMu"), Lock("queueMu"), Unlock("queueMu"), Unlock("visitMu"),
      Lock("statsMu"), Unlock("statsMu")>>

\* enqueue of a URL that is accepted: mark, append, count
enqueueLocks ==
    <<Lock("visitMu"), Unlock("visitMu"), Lock("queueMu"), Unlock("queueMu"),
      Lock("statsMu"), Unlock("statsMu")>>

\* enqueue of a URL that is visited already or over the page cap
enqueueRejectedLocks == <<Lock("visitMu"), Unlock("visitMu")>>

\* dequeue: Lock, deferred Unlock
dequeueLocks == <<Lock("queueMu"), Unlock("queueMu")>>

\* Stop and isStopped: Lock, deferred Unlock
stopLocks == <<Lock("stopMu"), Unlock("stopMu")>>

\* chooseFetcher in auto mode, the PagesErrored++ and the stats update of
\* processURL, and getStats: each one statsMu section
statsLocks == <<Lock("statsMu"), Unlock("statsMu")>>

\* processURL after a successful fetch: the stats update, then getStats for
\* the done event, called after the update's Unlock
processDoneLocks == statsLocks \o statsLocks

LockProgram(fn) ==
    CASE fn = "enqueue" -> enqueueLocks
      [] fn = "enqueueRejected" -> enqueueRejectedLocks
      [] fn = "dequeue" -> dequeueLocks
      [] fn \in {"Stop", "isStopped"} -> stopLocks
      [] fn \in {"chooseFetcher", "recordError", "getStats"} -> statsLocks
      [] fn = "processDone" -> processDoneLocks

\* the locking functions each thread calls: Run calls enqueue for the seed,
\* dequeue, isStopped and, through buildSummary and the crawl-finished
\* event, getStats; a work unit runs processURL; the signal handler Stop
CallsOf(t) ==
    IF t = Main
    THEN {"enqueue", "enqueueRejected", "dequeue", "isStopped", "getStats"}
    ELSE IF t = Signal THEN {"Stop"}
    ELSE {"chooseFetcher", "recordError", "processDone", "enqueue",
          "enqueueRejected"}

\* the Lock or Unlock thread t is at
NextOp(t) == LockProgram(locks.at[t].fn)[locks.at[t].pos]

Busy(t) == locks.at[t].fn # "none"

LockInit ==
    /\ locks = LocksIdle
    /\ norm = NormIdle
    /\ CrawlerNew({c \in FairDuration : TRUE}, {FALSE})

\* thread t enters a locking function
LockCall(t) ==
    /\ ~Busy(t)
    /\ \E fn \in CallsOf(t) :
          locks' = [locks EXCEPT !.at[t] = [fn |-> fn, pos |-> 1]]
    /\ UNCHANGED <<crawlVars, norm>>

\* where thread t is after the operation it is at
AfterOp(t) ==
    IF locks.at[t].pos = Len(LockProgram(locks.at[t].fn))
    THEN [fn |-> "none", pos |-> 0]
    ELSE [locks.at[t] EXCEPT !.pos = @ + 1]

\* mu.Lock(): waits until no thread holds mu
LockAcquire(t) ==
    /\ Busy(t)
    /\ NextOp(t).op = "lock"
    /\ \A u \in LockThreads : NextOp(t).mu \notin locks.held[u]
    /\ locks' = [locks EXCEPT !.held[t] = @ \cup {NextOp(t).mu},
                              !.at[t] = AfterOp(t)]
    /\ UNCHANGED <<crawlVars, norm>>

\* mu.Unlock()
LockRelease(t) ==
    /\ Busy(t)
    /\ NextOp(t).op = "unlock"
    /\ locks' = [locks EXCEPT !.held[t] = @ \ {NextOp(t).mu},
                              !.at[t] = AfterOp(t)]
    /\ UNCHANGED <<crawlVars, norm>>

LockNext ==
    \E t \in LockThreads : LockCall(t) \/ LockAcquire(t) \/ LockRelease(t)

LockSpec == LockInit /\ [][LockNext]_vars

\* thread t is at a Lock of a mutex that some thread holds
Waiting(t) ==
    /\ Busy(t)
    /\ NextOp(t).op = "lock"
    /\ \E u \in LockThreads : NextOp(t).mu \in locks.held[u]

\* C27: no thread holds two of the four locks at once and no lock has two
\* holders; a thread that waits for a lock waits for a thread that is not
\* waiting itself and whose next operation is an Unlock, so no set of
\* threads waits on each other; and a thread outside the locking functions
\* holds nothing.
C27_OneLockAtATime ==
    \A t \in LockThreads :
       /\ Cardinality(locks.held[t]) <= 1
       /\ \A u \in LockThreads \ {t} : locks.held[t] \cap locks.held[u] = {}
       /\ ~Busy(t) => locks.held[t] = {}
       /\ Waiting(t)
          => \A u \in LockThreads :
                NextOp(t).mu \in locks.held[u]
                => u # t /\ ~Waiting(u) /\ NextOp(u).op = "unlock"

\* C27 witness: a work unit in enqueue holds visitMu while another waits for
\* it, the control loop holds queueMu inside dequeue, and the signal handler
\* holds stopMu inside Stop
C27_Witness ==
    /\ locks.at[1].fn = "enqueue" /\ locks.held[1] = {"visitMu"}
    /\ locks.at[2].fn = "enqueue" /\ Waiting(2)
    /\ locks.at[Main].fn = "dequeue" /\ locks.held[Main] = {"queueMu"}
    /\ locks.held[Signal] = {"stopMu"}

====
